---- MODULE Spec2Model ----
(***************************************************************************)
(* A model of the mqttrs packet codec: the fixed-header parser and the     *)
(* top-level decode of src/decoder.rs, and the list-bearing payload codecs *)
(* (Subscribe, Suback, Unsubscribe) of src/subscribe.rs.                   *)
(*                                                                         *)
(* Bytes are integers 0..255; a buffer is a sequence of bytes.  Rust       *)
(* indices are 0-based, TLA+ sequences 1-based: buf[i] in the source is    *)
(* buf[i + 1] here.  A Rust panic (an unwrap of None/Err, an index out of  *)
(* range) is an outcome of its own, "Panic".                               *)
(***************************************************************************)
EXTENDS Integers, Sequences, FiniteSets, TLC

VARIABLES
    std,      \* build configuration: TRUE = feature "std", FALSE = heapless
    pkt,      \* the packet handed to encode
    enc,      \* what encode returned, and the bytes it wrote
    wire,     \* encoded bytes not yet delivered to the receive buffer
    buffer,   \* decode's `buffer`
    before,   \* `buffer` as it was when decode was last called
    dec,      \* what decode last returned
    cbuf,     \* the slice `buf` handed to a payload codec's from_buffer
    cframe,   \* the offset and remaining length the fixed header of cbuf gives
    cres,     \* what from_buffer last returned, and the cursor it left
    vn,       \* the remaining length given to write_length
    vbuf,     \* the header bytes holding its encoding
    vres,     \* what read_length made of them
    last,     \* the operation performed last
    sent,     \* the packets whose encodings were put on the wire, in order
    got       \* the packets decode has returned, in order

vars == <<std, pkt, enc, wire, buffer, before, dec, cbuf, cframe, cres, vn, vbuf, vres, last,
          sent, got>>

----------------------------------------------------------------------------
(* Bounds of the model *)

\* longest receive buffer of arbitrary bytes
MaxBuf == 6
\* longest topic string of a packet handed to encode
MaxStr == 2
\* most packets of one stream
MaxPackets == 2
\* most list elements of a packet handed to encode
MaxList == 2
\* largest small output-buffer capacity tried by encode
MaxCap == 16
\* how far around each varint boundary the remaining lengths are taken
VarintSpread == 6
\* longest slice of arbitrary bytes handed to from_buffer
MaxCBuf == 5
\* largest start offset from_buffer is called with on arbitrary bytes
MaxStart == 1

(* Program constants *)

\* crate::MULTIPLIER, 0x80 * 0x80 * 0x80 * 0x80
MULTIPLIER == 268435456
\* heapless::Vec<T, 5>
VecCap == 5
\* heapless::String<256>
StrCap == 256
\* BytesMut::with_capacity(10240) of the round-trip test
TestCapacity == 10240
\* return_codes of a Suback whose remaining length (2 + 126) needs two bytes
LongList == 126

----------------------------------------------------------------------------
(* Values *)

\* the bytes arbitrary receive buffers are made of: 0x00 and 0x01 (lengths 0
\* and 1, type nibble 0), 0x80 (a continuation byte of value 0, type nibble
\* 8), 0xC0 (the Pingreq header, a continuation byte of value 64) and 0xFF
\* (type nibble 15, a continuation byte of value 127)
WireByteSeq == <<192, 128, 255, 0, 1>>
WireBytes == {WireByteSeq[i] : i \in 1..Len(WireByteSeq)}

Take(s, n) == SubSeq(s, 1, n)
Drop(s, n) == SubSeq(s, n + 1, Len(s))

\* no packet: nothing was encoded or returned yet
NoPacket == [type |-> "NoPacket"]

\* the placeholder Packet::None of decoder.rs
PacketNone == [type |-> "None"]

\* Packet::Pingreq, Packet::Pingresp, Packet::Disconnect
DataLess(t) == [type |-> t]

----------------------------------------------------------------------------
(* src/decoder.rs: the fixed header *)

\* Header::new(hd, len): the packet type of the high nibble, an error for a
\* nibble that is none of the 14 types
PacketTypeOf(nibble) ==
    CASE nibble = 1 -> "Connect"
      [] nibble = 2 -> "Connack"
      [] nibble = 3 -> "Publish"
      [] nibble = 4 -> "Puback"
      [] nibble = 5 -> "Pubrec"
      [] nibble = 6 -> "Pubrel"
      [] nibble = 7 -> "Pubcomp"
      [] nibble = 8 -> "Subscribe"
      [] nibble = 9 -> "Suback"
      [] nibble = 10 -> "Unsubscribe"
      [] nibble = 11 -> "Unsuback"
      [] nibble = 12 -> "Pingreq"
      [] nibble = 13 -> "Pingresp"
      [] nibble = 14 -> "Disconnect"
      [] OTHER -> "Unknown"

Header_new(hd, len) ==
    LET t == PacketTypeOf(hd \div 16)
    IN  IF t = "Unknown"
        THEN [tag |-> "Err", packet |-> t, len |-> 0]
        ELSE [tag |-> "Ok", packet |-> t, len |-> len]

\* the loop of read_length, entered with the values of pos, mult and len and
\* the number of length bytes fetched so far.  `mult *= 0x80; if mult >
\* MULTIPLIER` is decided as mult > MULTIPLIER / 0x80, which is the same
\* comparison for a MULTIPLIER that is a multiple of 0x80 and keeps the
\* arithmetic inside TLC's integers; len is discarded on that return, and
\* no product is formed for it.
RECURSIVE read_length_loop(_, _, _, _, _)
read_length_loop(buf, pos, mult, len, reads) ==
    IF pos >= Len(buf)
    THEN [tag |-> "Panic", len |-> 0, pos |-> pos, reads |-> reads]
    ELSE LET byte == buf[pos + 1]
         IN  IF mult > MULTIPLIER \div 128
             THEN [tag |-> "None", len |-> 0, pos |-> pos, reads |-> reads + 1]
             ELSE IF byte < 128
                  THEN [tag |-> "Some", len |-> len + (byte % 128) * mult,
                        pos |-> pos, reads |-> reads + 1]
                  ELSE read_length_loop(buf, pos + 1, mult * 128,
                                        len + (byte % 128) * mult, reads + 1)

\* read_length with mult starting at 0x80
read_length_MultFrom128(buf, pos) == read_length_loop(buf, pos, 128, 0, 0)

read_length(buf, pos) == read_length_loop(buf, pos, 1, 0, 0)

\* read_header: None, Some((header, size)) or a panic
read_header(buf) ==
    IF Len(buf) > 1
    THEN LET l == read_length(buf, 1)
             h == Header_new(buf[1], l.len)
         IN  CASE l.tag = "Panic" ->
                    [tag |-> "Panic", packet |-> "Unknown", len |-> 0, size |-> 0, reads |-> l.reads]
               [] l.tag = "None" ->
                    [tag |-> "None", packet |-> "Unknown", len |-> 0, size |-> 0, reads |-> l.reads]
               [] l.tag = "Some" /\ h.tag = "Err" ->
                    [tag |-> "Panic", packet |-> "Unknown", len |-> 0, size |-> 0, reads |-> l.reads]
               [] OTHER ->
                    [tag |-> "Some", packet |-> h.packet, len |-> h.len,
                     size |-> l.pos + 1, reads |-> l.reads]
    ELSE [tag |-> "None", packet |-> "Unknown", len |-> 0, size |-> 0, reads |-> 0]

\* read_packet: every packet type is a stub
read_packet(t, payload) == PacketNone

\* decode without `buffer = remaining`: the payload is left in the buffer
decode_KeepsPayload(buf) ==
    LET h == read_header(buf)
        rest == Drop(buf, h.size)
    IN  CASE h.tag = "Panic" -> [kind |-> "panic", packet |-> NoPacket, buffer |-> buf, hdr |-> h]
          [] h.tag = "None" -> [kind |-> "none", packet |-> NoPacket, buffer |-> buf, hdr |-> h]
          [] h.tag = "Some" /\ h.len = 0 ->
                [kind |-> "some",
                 packet |-> IF h.packet \in {"Pingreq", "Pingresp", "Disconnect"}
                            THEN DataLess(h.packet) ELSE PacketNone,
                 buffer |-> rest, hdr |-> h]
          [] h.tag = "Some" /\ h.len > 0 /\ Len(rest) >= h.len ->
                [kind |-> "some", packet |-> read_packet(h.packet, Take(rest, h.len)),
                 buffer |-> Take(rest, h.len), hdr |-> h]
          [] OTHER -> [kind |-> "none", packet |-> NoPacket, buffer |-> rest, hdr |-> h]

\* decode: the value returned, and `buffer` as the function leaves it
decode(buf) ==
    LET h == read_header(buf)
        rest == Drop(buf, h.size)
    IN  CASE h.tag = "Panic" -> [kind |-> "panic", packet |-> NoPacket, buffer |-> buf, hdr |-> h]
          [] h.tag = "None" -> [kind |-> "none", packet |-> NoPacket, buffer |-> buf, hdr |-> h]
          [] h.tag = "Some" /\ h.len = 0 ->
                [kind |-> "some",
                 packet |-> IF h.packet \in {"Pingreq", "Pingresp", "Disconnect"}
                            THEN DataLess(h.packet) ELSE PacketNone,
                 buffer |-> rest, hdr |-> h]
          [] h.tag = "Some" /\ h.len > 0 /\ Len(rest) >= h.len ->
                [kind |-> "some", packet |-> read_packet(h.packet, Take(rest, h.len)),
                 buffer |-> Drop(rest, h.len), hdr |-> h]
          [] OTHER -> [kind |-> "none", packet |-> NoPacket, buffer |-> rest, hdr |-> h]

----------------------------------------------------------------------------
(* The output buffer `buf: &mut [u8]` with its cursor `offset`: the bytes  *)
(* written so far, the length of the slice, and the error a write          *)
(* returned, "" while there is none.  A `?` in the source skips the rest   *)
(* of the function; every write below does nothing once err is set.        *)

NewWriter(cap) == [bytes |-> <<>>, cap |-> cap, err |-> ""]

Fail(w, e) == IF w.err = "" THEN [w EXCEPT !.err = e] ELSE w

\* check_remaining(buf, offset, len): WriteZero unless len bytes are free
check_remaining(w, n) ==
    IF w.err = "" /\ w.cap - Len(w.bytes) < n THEN Fail(w, "WriteZero") ELSE w

\* write_u8(buf, offset, val)
write_u8(w, b) ==
    IF w.err # "" THEN w
    ELSE IF Len(w.bytes) >= w.cap THEN Fail(w, "WriteZero")
    ELSE [w EXCEPT !.bytes = Append(@, b)]

\* the bytes bs, one write_u8 each
write_all(w, bs) ==
    IF w.err # "" THEN w
    ELSE IF Len(w.bytes) + Len(bs) > w.cap
         THEN [w EXCEPT !.bytes = @ \o Take(bs, w.cap - Len(w.bytes)), !.err = "WriteZero"]
         ELSE [w EXCEPT !.bytes = @ \o bs]

\* the Remaining Length encoding: 7 value bits a byte, low group first, the
\* high bit set on every byte but the last
RECURSIVE VarintBytes(_)
VarintBytes(n) ==
    IF n < 128 THEN <<n>> ELSE <<128 + (n % 128)>> \o VarintBytes(n \div 128)

\* write_length(buf, offset, len)
write_length(w, len) ==
    IF w.err # "" THEN w
    ELSE IF len > 268435455 THEN Fail(w, "InvalidLength")
    ELSE write_all(w, VarintBytes(len))

\* Pid::to_buffer: 2 bytes, big-endian
Pid_to_buffer(w, pid) == write_all(w, <<pid \div 256, pid % 256>>)

\* write_string: a 2-byte big-endian length, then the bytes
write_string(w, s) == write_all(w, <<Len(s) \div 256, Len(s) % 256>> \o s)

\* QoS::to_u8
QoS_to_u8(qos) ==
    CASE qos = "AtMostOnce" -> 0
      [] qos = "AtLeastOnce" -> 1
      [] qos = "ExactlyOnce" -> 2

\* QoS::from_u8
QoS_from_u8(b) ==
    CASE b = 0 -> [tag |-> "Ok", qos |-> "AtMostOnce"]
      [] b = 1 -> [tag |-> "Ok", qos |-> "AtLeastOnce"]
      [] b = 2 -> [tag |-> "Ok", qos |-> "ExactlyOnce"]
      [] OTHER -> [tag |-> "Err", qos |-> "AtMostOnce"]

----------------------------------------------------------------------------
(* src/subscribe.rs: to_buffer *)

Failure == [tag |-> "Failure"]
Success(qos) == [tag |-> "Success", qos |-> qos]

\* SubscribeReturnCodes::to_u8
to_u8(rc) == IF rc.tag = "Failure" THEN 128 ELSE QoS_to_u8(rc.qos)

\* the `for rc in &self.return_codes` loop of Suback::to_buffer: one write_u8
\* for each return code, in list order, up to the first that fails
write_return_codes(w, rcs) ==
    write_all(w, [i \in 1..Len(rcs) |-> to_u8(rcs[i])])

\* Suback::to_buffer with the Pid left out of the remaining length
Suback_to_buffer_ShortLength(self, w) ==
    LET header == 144
        length == Len(self.return_codes)
        w1 == check_remaining(w, 1)
        w2 == write_u8(w1, header)
        w3 == write_length(w2, length)
        w4 == Pid_to_buffer(w3, self.pid)
    IN  write_return_codes(w4, self.return_codes)

\* Suback::to_buffer
Suback_to_buffer(self, w) ==
    LET header == 144
        length == 2 + Len(self.return_codes)
        w1 == check_remaining(w, 1)
        w2 == write_u8(w1, header)
        w3 == write_length(w2, length)
        w4 == Pid_to_buffer(w3, self.pid)
    IN  write_return_codes(w4, self.return_codes)

\* `length += topic.topic_path.len() + 2 + 1` over the topics of a Subscribe
RECURSIVE subscribe_length(_)
subscribe_length(topics) ==
    IF topics = <<>> THEN 2
    ELSE Len(Head(topics).topic_path) + 2 + 1 + subscribe_length(Tail(topics))

\* the `for topic in &self.topics` write loop of Subscribe::to_buffer
RECURSIVE write_subscribe_topics(_, _)
write_subscribe_topics(w, topics) ==
    IF topics = <<>> THEN w
    ELSE write_subscribe_topics(
             write_u8(write_string(w, Head(topics).topic_path),
                      QoS_to_u8(Head(topics).qos)),
             Tail(topics))

\* Subscribe::to_buffer with the result of the topic writes not propagated
\* (no `?` in the loop)
Subscribe_to_buffer_DropsError(self, w) ==
    LET header == 130
        w1 == check_remaining(w, 1)
        w2 == write_u8(w1, header)
        w3 == write_length(w2, subscribe_length(self.topics))
        w4 == Pid_to_buffer(w3, self.pid)
        w5 == write_subscribe_topics(w4, self.topics)
    IN  [w5 EXCEPT !.err = w4.err]

\* Subscribe::to_buffer
Subscribe_to_buffer(self, w) ==
    LET header == 130
        w1 == check_remaining(w, 1)
        w2 == write_u8(w1, header)
        w3 == write_length(w2, subscribe_length(self.topics))
        w4 == Pid_to_buffer(w3, self.pid)
    IN  write_subscribe_topics(w4, self.topics)

\* `length += 2 + topic.len()` over the topics of an Unsubscribe
RECURSIVE unsubscribe_length(_)
unsubscribe_length(topics) ==
    IF topics = <<>> THEN 2
    ELSE 2 + Len(Head(topics)) + unsubscribe_length(Tail(topics))

\* the `for topic in &self.topics` write loop of Unsubscribe::to_buffer
RECURSIVE write_unsubscribe_topics(_, _)
write_unsubscribe_topics(w, topics) ==
    IF topics = <<>> THEN w
    ELSE write_unsubscribe_topics(write_string(w, Head(topics)), Tail(topics))

\* Unsubscribe::to_buffer
Unsubscribe_to_buffer(self, w) ==
    LET header == 162
        w1 == check_remaining(w, 1)
        w2 == write_u8(w1, header)
        w3 == write_length(w2, unsubscribe_length(self.topics))
        w4 == Pid_to_buffer(w3, self.pid)
    IN  write_unsubscribe_topics(w4, self.topics)

\* the fixed header byte of the packets that carry a Pid or nothing
HeaderByte(t) ==
    CASE t = "Puback" -> 64
      [] t = "Pubrec" -> 80
      [] t = "Pubrel" -> 98
      [] t = "Pubcomp" -> 112
      [] t = "Unsuback" -> 176
      [] t = "Pingreq" -> 192
      [] t = "Pingresp" -> 208
      [] t = "Disconnect" -> 224

\* encode: dispatch on the packet's tag; the result is Ok when no write failed
encode(p, cap) ==
    LET w == NewWriter(cap)
    IN  CASE p.type = "Subscribe" -> Subscribe_to_buffer(p, w)
          [] p.type = "Suback" -> Suback_to_buffer(p, w)
          [] p.type = "Unsubscribe" -> Unsubscribe_to_buffer(p, w)
          [] p.type \in {"Puback", "Pubrec", "Pubrel", "Pubcomp", "Unsuback"} ->
                Pid_to_buffer(write_length(write_u8(w, HeaderByte(p.type)), 2), p.pid)
          [] OTHER -> write_length(write_u8(w, HeaderByte(p.type)), 0)

----------------------------------------------------------------------------
(* Reading primitives: the value read, and the cursor `offset` as the call *)
(* leaves it.  tag is "Ok", "Err" (with the error in err) or "Panic".      *)

ROk(v, off) == [tag |-> "Ok", err |-> "", value |-> v, offset |-> off]
RErr(e, off) == [tag |-> "Err", err |-> e, value |-> <<>>, offset |-> off]
RPanic(off) == [tag |-> "Panic", err |-> "", value |-> <<>>, offset |-> off]

\* Pid::from_buffer: 2 bytes big-endian, 0 is no Pid
Pid_from_buffer(buf, offset) ==
    IF offset + 2 > Len(buf) THEN RErr("InvalidLength", offset)
    ELSE LET pid == buf[offset + 1] * 256 + buf[offset + 2]
         IN  IF pid = 0 THEN RErr("InvalidPid", offset + 2) ELSE ROk(pid, offset + 2)

\* core::str::from_utf8 on the bytes s: every byte is ASCII, a lead byte
\* followed by its continuation bytes, or a continuation byte of a lead byte
\* before it (overlong forms and surrogates are not told apart)
Utf8Follows(b) ==
    CASE b < 128 -> 0
      [] b >= 194 /\ b <= 223 -> 1
      [] b >= 224 /\ b <= 239 -> 2
      [] b >= 240 /\ b <= 244 -> 3
      [] OTHER -> -1

IsUtf8Continuation(b) == b >= 128 /\ b <= 191

IsUtf8(s) ==
    \A i \in 1..Len(s) :
        IF IsUtf8Continuation(s[i])
        THEN \E k \in 1..3 :
                /\ i - k >= 1
                /\ Utf8Follows(s[i - k]) >= k
                /\ \A j \in (i - k + 1)..i : IsUtf8Continuation(s[j])
        ELSE /\ Utf8Follows(s[i]) >= 0
             /\ i + Utf8Follows(s[i]) <= Len(s)
             /\ \A j \in (i + 1)..(i + Utf8Follows(s[i])) : IsUtf8Continuation(s[j])

\* read_str: a 2-byte big-endian length, then that many bytes of UTF-8; an
\* error when the length or the bytes run past the end of buf
read_str(buf, offset) ==
    IF offset + 2 > Len(buf) THEN RErr("InvalidLength", offset)
    ELSE LET len == buf[offset + 1] * 256 + buf[offset + 2]
             str == SubSeq(buf, offset + 3, offset + 2 + len)
         IN  IF offset + 2 + len > Len(buf) THEN RErr("InvalidLength", offset + 2)
             ELSE IF ~IsUtf8(str) THEN RErr("InvalidString", offset + 2 + len)
             ELSE ROk(str, offset + 2 + len)

----------------------------------------------------------------------------
(* src/subscribe.rs: the containers and from_buffer *)

\* LimitedString::from_str: String::from_str never fails; heapless::String<256>
\* is Err(()) for more than 256 bytes
LimitedString_from_str(s, isStd) ==
    IF isStd \/ Len(s) <= StrCap THEN [tag |-> "Ok", value |-> s]
    ELSE [tag |-> "Err", value |-> <<>>]

\* LimitedVec::push: Vec::push returns (); heapless::Vec<T, 5>::push is Err(x)
\* when 5 elements are held
LimitedVec_push(v, x, isStd) ==
    IF isStd \/ Len(v) < VecCap THEN [tag |-> "Ok", value |-> Append(v, x)]
    ELSE [tag |-> "Err", value |-> v]

\* SubscribeTopic::from_buffer
SubscribeTopic_from_buffer(buf, offset, isStd) ==
    LET r == read_str(buf, offset)
        ls == LimitedString_from_str(r.value, isStd)
        q == QoS_from_u8(buf[r.offset + 1])
    IN  CASE r.tag = "Err" -> r
          [] r.tag = "Ok" /\ ls.tag = "Err" -> RPanic(r.offset)
          [] r.tag = "Ok" /\ ls.tag = "Ok" /\ r.offset >= Len(buf) -> RPanic(r.offset)
          [] r.tag = "Ok" /\ ls.tag = "Ok" /\ r.offset < Len(buf) /\ q.tag = "Err" ->
                RErr("InvalidQos", r.offset)
          [] OTHER -> ROk([topic_path |-> ls.value, qos |-> q.qos], r.offset + 1)

\* SubscribeReturnCodes::from_buffer
SubscribeReturnCodes_from_buffer(buf, offset) ==
    IF offset >= Len(buf) THEN RPanic(offset)
    ELSE LET code == buf[offset + 1]
             q == QoS_from_u8(code)
         IN  IF code = 128 THEN ROk(Failure, offset + 1)
             ELSE IF q.tag = "Err" THEN RErr("InvalidQos", offset + 1)
             ELSE ROk(Success(q.qos), offset + 1)

\* the `while *offset < payload_end` loop of Subscribe::from_buffer
RECURSIVE subscribe_loop(_, _, _, _, _)
subscribe_loop(buf, offset, payload_end, topics, isStd) ==
    IF offset < payload_end
    THEN LET t == SubscribeTopic_from_buffer(buf, offset, isStd)
             res == LimitedVec_push(topics, t.value, isStd)
         IN  CASE t.tag # "Ok" -> t
               [] t.tag = "Ok" /\ res.tag = "Err" -> RErr("InvalidLength", t.offset)
               [] OTHER -> subscribe_loop(buf, t.offset, payload_end, res.value, isStd)
    ELSE ROk(topics, offset)

\* Subscribe::from_buffer
Subscribe_from_buffer(remaining_len, buf, offset, isStd) ==
    LET payload_end == offset + remaining_len
        pid == Pid_from_buffer(buf, offset)
        l == subscribe_loop(buf, pid.offset, payload_end, <<>>, isStd)
    IN  IF pid.tag # "Ok" THEN pid
        ELSE IF l.tag # "Ok" THEN l
        ELSE ROk([type |-> "Subscribe", pid |-> pid.value, topics |-> l.value], l.offset)

\* the `while *offset < payload_end` loop of Unsubscribe::from_buffer
RECURSIVE unsubscribe_loop(_, _, _, _, _)
unsubscribe_loop(buf, offset, payload_end, topics, isStd) ==
    IF offset < payload_end
    THEN LET r == read_str(buf, offset)
             ls == LimitedString_from_str(r.value, isStd)
             res == LimitedVec_push(topics, ls.value, isStd)
         IN  CASE r.tag = "Err" -> r
               [] r.tag = "Ok" /\ ls.tag = "Err" -> RPanic(r.offset)
               [] r.tag = "Ok" /\ ls.tag = "Ok" /\ res.tag = "Err" ->
                     RErr("InvalidLength", r.offset)
               [] OTHER -> unsubscribe_loop(buf, r.offset, payload_end, res.value, isStd)
    ELSE ROk(topics, offset)

\* Unsubscribe::from_buffer
Unsubscribe_from_buffer(remaining_len, buf, offset, isStd) ==
    LET payload_end == offset + remaining_len
        pid == Pid_from_buffer(buf, offset)
        l == unsubscribe_loop(buf, pid.offset, payload_end, <<>>, isStd)
    IN  IF pid.tag # "Ok" THEN pid
        ELSE IF l.tag # "Ok" THEN l
        ELSE ROk([type |-> "Unsubscribe", pid |-> pid.value, topics |-> l.value], l.offset)

\* the `while *offset < payload_end` loop of Suback::from_buffer
RECURSIVE suback_loop(_, _, _, _, _)
suback_loop(buf, offset, payload_end, return_codes, isStd) ==
    IF offset < payload_end
    THEN LET rc == SubscribeReturnCodes_from_buffer(buf, offset)
             res == LimitedVec_push(return_codes, rc.value, isStd)
         IN  CASE rc.tag # "Ok" -> rc
               [] rc.tag = "Ok" /\ res.tag = "Err" -> RErr("InvalidLength", rc.offset)
               [] OTHER -> suback_loop(buf, rc.offset, payload_end, res.value, isStd)
    ELSE ROk(return_codes, offset)

\* Suback::from_buffer
Suback_from_buffer(remaining_len, buf, offset, isStd) ==
    LET payload_end == offset + remaining_len
        pid == Pid_from_buffer(buf, offset)
        l == suback_loop(buf, pid.offset, payload_end, <<>>, isStd)
    IN  IF pid.tag # "Ok" THEN pid
        ELSE IF l.tag # "Ok" THEN l
        ELSE ROk([type |-> "Suback", pid |-> pid.value, return_codes |-> l.value], l.offset)

\* the payload codec of a list-bearing packet type
from_buffer(t, remaining_len, buf, offset, isStd) ==
    CASE t = "Subscribe" -> Subscribe_from_buffer(remaining_len, buf, offset, isStd)
      [] t = "Suback" -> Suback_from_buffer(remaining_len, buf, offset, isStd)
      [] t = "Unsubscribe" -> Unsubscribe_from_buffer(remaining_len, buf, offset, isStd)

----------------------------------------------------------------------------
(* The packets handed to encode *)

Pids == {1, 258}
Chars == {97}
QoSs == {"AtMostOnce", "AtLeastOnce", "ExactlyOnce"}

SeqsUpTo(S, n) == UNION {[1..k -> S] : k \in 0..n}

Strs == SeqsUpTo(Chars, MaxStr)
SubscribeTopics == [topic_path : Strs, qos : QoSs]
ReturnCodes == {Failure} \cup {Success(q) : q \in QoSs}

\* a Suback of n return codes, all Success(AtLeastOnce)
LongSuback(n) ==
    [type |-> "Suback", pid |-> 1, return_codes |-> [i \in 1..n |-> Success("AtLeastOnce")]]

ListPackets ==
    {[type |-> "Subscribe", pid |-> p, topics |-> ts] :
        p \in Pids, ts \in SeqsUpTo(SubscribeTopics, MaxList)}
    \cup {[type |-> "Suback", pid |-> p, return_codes |-> rcs] :
        p \in Pids, rcs \in SeqsUpTo(ReturnCodes, MaxList)}
    \cup {[type |-> "Unsubscribe", pid |-> p, topics |-> ts] :
        p \in Pids, ts \in SeqsUpTo(Strs, MaxList)}

\* the packets whose codecs are not in subscribe.rs: a Pid, or no data
PlainPackets ==
    {[type |-> t, pid |-> p] :
        t \in {"Puback", "Pubrec", "Pubrel", "Pubcomp", "Unsuback"}, p \in Pids}
    \cup {DataLess(t) : t \in {"Pingreq", "Pingresp", "Disconnect"}}

Packets == ListPackets \cup {LongSuback(LongList)} \cup PlainPackets

\* the packets of a stream: a Pid of 1, a list of at most one element
StreamPackets ==
    {p \in ListPackets :
        /\ p.pid = 1
        /\ Len(IF p.type = "Suback" THEN p.return_codes ELSE p.topics) <= 1}
    \cup {p \in PlainPackets : "pid" \in DOMAIN p => p.pid = 1}

----------------------------------------------------------------------------
(* State *)

EncIdle == [tag |-> "idle", err |-> "", bytes |-> <<>>, cap |-> 0]
DecIdle == [kind |-> "idle", packet |-> NoPacket]
NoFrame == [set |-> FALSE, type |-> "Unknown", s |-> 0, r |-> 0]
CodecIdle == [tag |-> "idle"]
VarintIdle == [stage |-> "idle"]

InitWith(isStd) ==
    /\ std = isStd
    /\ pkt = NoPacket
    /\ enc = EncIdle
    /\ wire = <<>>
    /\ buffer = <<>>
    /\ before = <<>>
    /\ dec = DecIdle
    /\ cbuf = <<>>
    /\ cframe = NoFrame
    /\ cres = CodecIdle
    /\ vn = 0
    /\ vbuf = <<>>
    /\ vres = VarintIdle
    /\ last = "init"
    /\ sent = <<>>
    /\ got = <<>>

Init == InitWith(TRUE)

codecVars == <<std, cbuf, cframe, cres>>
varintVars == <<vn, vbuf, vres>>
streamVars == <<pkt, enc, wire, buffer, before, dec>>
logVars == <<sent, got>>

----------------------------------------------------------------------------
(* Encoding a packet, delivering its bytes, decoding the receive buffer *)

\* encode(&p, &mut buf) into an empty buffer of capacity cap
Encode(p, cap) ==
    /\ last' = "encode"
    /\ enc.tag = "idle"
    /\ dec.kind = "idle"
    /\ buffer = <<>>
    /\ LET w == encode(p, cap)
       IN  /\ enc' = [tag |-> IF w.err = "" THEN "Ok" ELSE "Err",
                      err |-> w.err, bytes |-> w.bytes, cap |-> cap]
           /\ wire' = IF w.err = "" THEN w.bytes ELSE <<>>
    /\ pkt' = p
    /\ UNCHANGED <<buffer, before, dec, codecVars, varintVars, logVars>>

\* the transport hands the next n encoded bytes to the receive buffer
Deliver(n) ==
    /\ last' = "deliver"
    /\ dec.kind # "panic"
    /\ n \in 1..Len(wire)
    /\ buffer' = buffer \o Take(wire, n)
    /\ wire' = Drop(wire, n)
    /\ UNCHANGED <<pkt, enc, before, dec, codecVars, varintVars, logVars>>

\* the transport hands an arbitrary byte to the receive buffer, before the
\* first decode and after the bytes of any encoded packet
Receive(b) ==
    /\ last' = "receive"
    /\ dec.kind = "idle"
    /\ wire = <<>>
    /\ Len(buffer) < Len(enc.bytes) + MaxBuf
    /\ buffer' = Append(buffer, b)
    /\ UNCHANGED <<pkt, enc, wire, before, dec, codecVars, varintVars, logVars>>

\* decode(buffer): what it returns, and the buffer as it leaves it
DecodeCall ==
    /\ last' = "decode"
    /\ dec.kind # "panic"
    /\ LET d == decode(buffer)
       IN  /\ dec' = [kind |-> d.kind, packet |-> d.packet, hdr |-> d.hdr]
           /\ buffer' = d.buffer
    /\ before' = buffer
    /\ UNCHANGED <<pkt, enc, wire, codecVars, varintVars>>

\* decode(buffer)
Decode == DecodeCall /\ UNCHANGED logVars

Caps == (0..MaxCap) \cup {TestCapacity}

\* a packet is encoded as the round-trip test does, its bytes arrive in any
\* chunks, and decode is called at any time
Next ==
    \/ enc.tag = "idle" /\ \E p \in ListPackets \cup {LongSuback(LongList)} :
          Encode(p, TestCapacity)
    \/ enc.tag = "idle" /\ \E p \in PlainPackets : Encode(p, TestCapacity)
    \/ \E n \in 1..Len(wire) : Deliver(n)
    \/ Decode

Spec == Init /\ [][Next]_vars

\* encode into output buffers of every small capacity
NextEncode == enc.tag = "idle" /\ \E p \in Packets, cap \in Caps : Encode(p, cap)

SpecEncode == Init /\ [][NextEncode]_vars

\* the receive buffer holds arbitrary bytes, alone or after the bytes of one
\* whole packet with a two-byte remaining length
NextBytes ==
    \/ Encode(LongSuback(LongList), TestCapacity)
    \/ Deliver(Len(wire))
    \/ \E i \in 1..Len(WireByteSeq) : Receive(WireByteSeq[i])
    \/ Decode

SpecBytes == Init /\ [][NextBytes]_vars

----------------------------------------------------------------------------
(* A stream of packets: their encodings are concatenated, the bytes arrive *)
(* in chunks, and after each chunk decode is called until it returns None  *)

\* encode(&p, &mut buf) for the next packet of the stream, before any byte
\* is delivered
Send(p) ==
    /\ last' = "send"
    /\ last \in {"init", "send"}
    /\ Len(sent) < MaxPackets
    /\ LET w == encode(p, TestCapacity)
       IN  /\ w.err = ""
           /\ enc' = [tag |-> "Ok", err |-> "", bytes |-> w.bytes, cap |-> TestCapacity]
           /\ wire' = wire \o w.bytes
    /\ pkt' = p
    /\ sent' = Append(sent, p)
    /\ UNCHANGED <<buffer, before, dec, got, codecVars, varintVars>>

\* the next chunk arrives once decode has returned None to the last one
Chunk(n) ==
    /\ last = "send" \/ (last = "decode" /\ dec.kind = "none")
    /\ Deliver(n)

\* decode(buffer), after a chunk and after every packet returned
DecodeNext ==
    /\ last = "deliver" \/ (last = "decode" /\ dec.kind = "some")
    /\ DecodeCall
    /\ got' = IF dec'.kind = "some" THEN Append(got, dec'.packet) ELSE got
    /\ UNCHANGED sent

NextStream ==
    \/ \E p \in StreamPackets \cap ListPackets : Send(p)
    \/ \E p \in StreamPackets \cap PlainPackets : Send(p)
    \/ \E n \in 1..Len(wire) : Chunk(n)
    \/ DecodeNext

SpecStream == Init /\ [][NextStream]_vars

----------------------------------------------------------------------------
(* The payload codecs on their own: from_buffer on the bytes of a packet   *)
(* a peer built with the growable containers sent, and on arbitrary bytes  *)

\* a topic of n bytes
TopicOf(n) == [i \in 1..n |-> 97]

PeerLens == {0, 1, StrCap, StrCap + 1}
PeerCounts == 0..(VecCap + 1)

PeerPackets ==
    ListPackets
    \cup {[type |-> "Subscribe", pid |-> 1,
           topics |-> [i \in 1..n |-> [topic_path |-> TopicOf(l), qos |-> "ExactlyOnce"]]] :
             n \in PeerCounts, l \in PeerLens}
    \cup {[type |-> "Unsubscribe", pid |-> 1, topics |-> [i \in 1..n |-> TopicOf(l)]] :
             n \in PeerCounts, l \in PeerLens}
    \cup {[type |-> "Suback", pid |-> 1, return_codes |-> [i \in 1..n |-> rc]] :
             n \in PeerCounts, rc \in ReturnCodes}

\* the bytes arbitrary payloads are made of: 0x00 and 0x01 (Pid and length
\* bytes, QoS 0 and 1), 0x03 (no QoS), 'a' and 0x80 (Failure, no UTF-8)
CodecBytes == {0, 1, 3, 97, 128}

\* the peer's packet p arrives whole; the fixed header gives the offset of the
\* payload and the remaining length
CodecPeer(p) ==
    /\ last' = "peer"
    /\ cbuf = <<>>
    /\ cres.tag = "idle"
    /\ LET bytes == encode(p, TestCapacity).bytes
           h == read_header(bytes)
       IN  /\ cbuf' = bytes
           /\ cframe' = [set |-> TRUE, type |-> h.packet, s |-> h.size, r |-> h.len]
    /\ pkt' = p
    /\ UNCHANGED <<std, cres, enc, wire, buffer, before, dec, varintVars, logVars>>

\* an arbitrary byte is appended to the slice
CodecReceive(b) ==
    /\ last' = "receive"
    /\ ~cframe.set
    /\ cres.tag = "idle"
    /\ Len(cbuf) < MaxCBuf
    /\ cbuf' = Append(cbuf, b)
    /\ UNCHANGED <<std, cframe, cres, streamVars, varintVars, logVars>>

\* T::from_buffer(r, cbuf, &mut s), on a slice that holds the r bytes
CallFromBuffer(t, s, r) ==
    /\ last' = "from_buffer"
    /\ cres.tag = "idle"
    /\ s + r <= Len(cbuf)
    /\ LET res == from_buffer(t, r, cbuf, s, std)
       IN  cres' = [tag |-> res.tag, err |-> res.err, value |-> res.value,
                    offset |-> res.offset, type |-> t, s |-> s, r |-> r]
    /\ UNCHANGED <<std, cbuf, cframe, streamVars, varintVars, logVars>>

\* the payload codec the packet type of the fixed header selects
FromBufferFramed ==
    /\ cframe.set
    /\ CallFromBuffer(cframe.type, cframe.s, cframe.r)

\* a payload codec on arbitrary bytes, the remaining length covering the Pid
FromBuffer(t, s, r) ==
    /\ ~cframe.set
    /\ r >= 2
    /\ CallFromBuffer(t, s, r)

InitCodec == \E isStd \in BOOLEAN : InitWith(isStd)

\* a peer's packet is decoded by the codec its fixed header selects
NextCodec ==
    \/ cbuf = <<>> /\ \E p \in PeerPackets : CodecPeer(p)
    \/ FromBufferFramed

SpecCodec == InitCodec /\ [][NextCodec]_vars

\* a payload codec is called on arbitrary bytes
NextPayload ==
    \/ \E b \in CodecBytes : CodecReceive(b)
    \/ \E t \in {"Subscribe", "Suback", "Unsubscribe"}, s \in 0..MaxStart, r \in 0..MaxCBuf :
          FromBuffer(t, s, r)

SpecPayload == InitCodec /\ [][NextPayload]_vars

----------------------------------------------------------------------------
(* The Remaining Length on its own: write_length, then read_length *)

VarintBoundaries == {0, 128, 16384, 2097152, 268435456}

VarintInputs ==
    {n \in {b + d : b \in VarintBoundaries, d \in (0 - VarintSpread)..VarintSpread} : n >= 0}

\* the Suback header byte, then write_length(buf, offset, n)
WriteLength(n) ==
    /\ last' = "write_length"
    /\ vres.stage = "idle"
    /\ LET w == write_length(write_u8(NewWriter(TestCapacity), 144), n)
       IN  /\ vbuf' = w.bytes
           /\ vres' = [stage |-> "written", err |-> w.err]
    /\ vn' = n
    /\ UNCHANGED <<streamVars, codecVars, logVars>>

\* read_length(&vbuf, 1)
ReadLength ==
    /\ last' = "read_length"
    /\ vres.stage = "written"
    /\ vres.err = ""
    /\ LET l == read_length(vbuf, 1)
       IN  vres' = [stage |-> "read", err |-> "", tag |-> l.tag, len |-> l.len,
                    pos |-> l.pos, reads |-> l.reads]
    /\ UNCHANGED <<vn, vbuf, streamVars, codecVars, logVars>>

NextVarint ==
    \/ vres.stage = "idle" /\ \E n \in VarintInputs : WriteLength(n)
    \/ ReadLength

SpecVarint == Init /\ [][NextVarint]_vars

----------------------------------------------------------------------------
(* Properties *)

\* decode has just returned
Decoded == last = "decode"

\* decode was called on the whole encoding of pkt
DecodedWhole == Decoded /\ enc.tag = "Ok" /\ wire = <<>> /\ before = enc.bytes

\* decode was called on a strict prefix of the encoding of pkt
DecodedPrefix ==
    /\ Decoded
    /\ enc.tag = "Ok"
    /\ Len(wire) >= 1
    /\ Len(before) + Len(wire) = Len(enc.bytes)
    /\ before = Take(enc.bytes, Len(before))

\* C1: round trip.  Encoding a packet into an empty buffer succeeds, and
\* decode on the bytes written returns that packet and leaves the buffer
\* empty.
C1_RoundTrip ==
    /\ enc.tag # "idle" => enc.tag = "Ok"
    /\ DecodedWhole => dec.kind = "some" /\ dec.packet = pkt /\ buffer = <<>>

\* C2: partial-decode safety.  decode on a strict prefix of a packet's
\* encoding returns None, never a packet and never a panic, and leaves the
\* buffer as it was.
C2_PartialDecode ==
    DecodedPrefix => dec.kind = "none" /\ buffer = before

\* 128^i
Pow128(i) ==
    CASE i = 0 -> 1
      [] i = 1 -> 128
      [] i = 2 -> 16384
      [] i = 3 -> 2097152

\* the k length bytes B[2..k+1] are a Remaining Length: all but the last have
\* the continuation bit
IsLengthField(B, k) ==
    /\ k >= 1
    /\ Len(B) >= k + 1
    /\ \A i \in 1..(k - 1) : B[i + 1] >= 128
    /\ B[k + 1] < 128

\* the value of the k <= 4 length bytes of B
RECURSIVE LengthValue(_, _)
LengthValue(B, k) ==
    IF k = 0 THEN 0 ELSE LengthValue(B, k - 1) + (B[k + 1] % 128) * Pow128(k - 1)

C4_NeverPanics == dec.kind # "panic"

\* the buffer ends before a terminating length byte: it is empty, or the type
\* byte is followed by 0 to 3 length bytes that all have the continuation bit
IsTruncatedHeader(B) ==
    \/ B = <<>>
    \/ Len(B) <= 4 /\ \A i \in 2..Len(B) : B[i] >= 128

\* the first four length bytes all have the continuation bit
IsOverLong(B) == Len(B) >= 5 /\ \A i \in 2..5 : B[i] >= 128

\* the length field is complete and the type nibble is none of the 14 types
IsUnknownType(B) ==
    /\ \E k \in 1..4 : IsLengthField(B, k)
    /\ PacketTypeOf(B[1] \div 16) = "Unknown"

\* C6: a header the buffer ends in the middle of is Incomplete: decode
\* returns None, consumes nothing and does not panic; an unknown type nibble
\* or an over-long length is an error, which is neither the retry signal None
\* nor a packet nor a panic.
C6_IncompleteIsNotMalformed ==
    Decoded =>
       /\ IsTruncatedHeader(before) => dec.kind = "none" /\ buffer = before
       /\ IsOverLong(before) \/ IsUnknownType(before) => dec.kind = "err"

\* C11: read_length examines at most 4 length bytes, so that header parsing
\* examines at most 5 bytes of the buffer: when the first 4 length bytes all
\* have the continuation bit the result is an InvalidLength error, whatever
\* follows them, and a fifth length byte is never fetched.
C11_FourLengthBytes ==
    Decoded =>
       /\ dec.hdr.reads <= 4
       /\ IsOverLong(before) => dec.kind = "err"

\* C12: chunked streaming.  The encodings of a sequence of packets arrive
\* in any chunks and decode is called after each chunk until it returns
\* None: no call fails, a call that returns None consumes no byte, the
\* packets returned are the packets sent, in order, and once the last chunk
\* has been processed all of them have been returned and the buffer is empty.
C12_ChunkedStreaming ==
    /\ Decoded => dec.kind \in {"some", "none"}
    /\ Decoded /\ dec.kind = "none" => buffer = before
    /\ Len(got) <= Len(sent)
    /\ \A i \in 1..Len(got) : i <= Len(sent) => got[i] = sent[i]
    /\ Decoded /\ dec.kind = "none" /\ wire = <<>> => got = sent /\ buffer = <<>>

\* the number of bytes of the Remaining Length n, by its range
LengthBytes(n) ==
    CASE n <= 127 -> 1
      [] n >= 128 /\ n <= 16383 -> 2
      [] n >= 16384 /\ n <= 2097151 -> 3
      [] n >= 2097152 /\ n <= 268435455 -> 4

\* C5: write_length emits 1, 2, 3 or 4 bytes by the range of n up to
\* 268,435,455, read_length maps those bytes back to n, and 268,435,456 and
\* more is rejected with InvalidLength.
C5_VarintBoundaries ==
    /\ vres.stage # "idle" /\ vn <= 268435455 =>
          vres.err = "" /\ Len(vbuf) = 1 + LengthBytes(vn)
    /\ vres.stage # "idle" /\ vn > 268435455 => vres.err = "InvalidLength"
    /\ vres.stage = "read" =>
          vres.tag = "Some" /\ vres.len = vn /\ vres.pos = LengthBytes(vn)

\* the largest remaining length was written in 4 bytes and read back
C5_Witness ==
    vres.stage = "read" /\ vn = 268435455 /\ vres.len = 268435455 /\ Len(vbuf) = 5

\* the bytes of the Remaining Length n < 16384
ShortVarint(n) == IF n <= 127 THEN <<n>> ELSE <<128 + (n % 128), n \div 128>>

\* the byte of a return code
ReturnCodeByte(rc) ==
    CASE rc = Failure -> 128
      [] rc = Success("AtMostOnce") -> 0
      [] rc = Success("AtLeastOnce") -> 1
      [] rc = Success("ExactlyOnce") -> 2

\* C8: a Suback of n return codes is encoded as 0x90, the varint of 2 + n,
\* the Pid in 2 bytes big-endian and one byte for each return code in list
\* order; Suback{pid: 1, return_codes: [Success(AtMostOnce)]} is
\* [0x90, 0x03, 0x00, 0x01, 0x00].
C8_SubackBytes ==
    /\ enc.tag = "Ok" /\ pkt.type = "Suback" =>
          enc.bytes = <<144>> \o ShortVarint(2 + Len(pkt.return_codes))
                      \o <<pkt.pid \div 256, pkt.pid % 256>>
                      \o [i \in 1..Len(pkt.return_codes) |-> ReturnCodeByte(pkt.return_codes[i])]
    /\ enc.tag # "idle" /\ enc.cap >= 5
       /\ pkt = [type |-> "Suback", pid |-> 1, return_codes |-> <<Success("AtMostOnce")>>] =>
          enc.tag = "Ok" /\ enc.bytes = <<144, 3, 0, 1, 0>>

\* a Suback with a Failure and a Success code and a Pid of two different
\* bytes was encoded
C8_Witness ==
    /\ enc.tag = "Ok"
    /\ pkt = [type |-> "Suback", pid |-> 258, return_codes |-> <<Failure, Success("ExactlyOnce")>>]
    /\ enc.bytes = <<144, 4, 1, 2, 128, 2>>

\* the sum of the numbers ns
RECURSIVE Sum(_)
Sum(ns) == IF ns = <<>> THEN 0 ELSE Head(ns) + Sum(Tail(ns))

\* the remaining length of the packet p
BodySize(p) ==
    CASE p.type = "Subscribe" -> 2 + Sum([i \in 1..Len(p.topics) |-> 2 + Len(p.topics[i].topic_path) + 1])
      [] p.type = "Unsubscribe" -> 2 + Sum([i \in 1..Len(p.topics) |-> 2 + Len(p.topics[i])])
      [] p.type = "Suback" -> 2 + Len(p.return_codes)
      [] p.type \in {"Puback", "Pubrec", "Pubrel", "Pubcomp", "Unsuback"} -> 2
      [] OTHER -> 0

\* the full encoded size of the packet p
EncodedSize(p) == 1 + LengthBytes(BodySize(p)) + BodySize(p)

Returned == last = "from_buffer"

\* the list of a list-bearing packet
ElementsOf(p) == IF p.type = "Suback" THEN p.return_codes ELSE p.topics

\* the topic string of an element of a list-bearing packet
TopicOfElement(p, e) ==
    CASE p.type = "Subscribe" -> e.topic_path
      [] p.type = "Unsubscribe" -> e
      [] OTHER -> <<>>

\* the packet has more than 5 list elements or a topic of more than 256 bytes
OverCapacity(p) ==
    \/ Len(ElementsOf(p)) > 5
    \/ \E i \in 1..Len(ElementsOf(p)) : Len(TopicOfElement(p, ElementsOf(p)[i])) > 256

\* C7: in the bounded build, decoding a Subscribe, Suback or Unsubscribe with
\* more than 5 list elements or a topic of more than 256 bytes is an
\* InvalidLength error, not a panic, a truncated list or string, or a packet;
\* a packet within both limits decodes to itself.
C7_CapacityIsAnError ==
    Returned /\ cframe.set /\ ~std =>
       IF OverCapacity(pkt)
       THEN cres.tag = "Err" /\ cres.err = "InvalidLength"
       ELSE cres.tag = "Ok" /\ cres.value = pkt

\* C10: from_buffer with start offset s and remaining length r does not
\* panic, and when it returns Ok the cursor is s + r exactly: no element was
\* read that ends past s + r.
C10_StaysInPayload ==
    Returned =>
       /\ cres.tag # "Panic"
       /\ cres.tag = "Ok" => cres.offset = cres.s + cres.r

====
